---- MODULE Spec2Model ----
(***************************************************************************)
(* Model of the instagram-automation pipeline: main.py's single and        *)
(* scheduled workflows over ImageGenerator, DescriptionGenerator and       *)
(* InstagramPoster.                                                        *)
(*                                                                         *)
(* Text is a sequence of one-character strings; a fixed phrase of the      *)
(* program (an opener, a closer, a fallback description) is one element    *)
(* of such a sequence, since nothing in the program looks inside it.       *)
(***************************************************************************)
EXTENDS Naturals, Sequences, FiniteSets

VARIABLES
    mode,          \* args.mode: "single" or "scheduled"
    total_posts,   \* config scheduled_posts_count
    prompt,        \* config default_prompt
    style,         \* ImageGenerator.style
    hashtags,      \* config default_hashtags (a sequence of tags)
    pc,            \* position of the single thread of control
    i,             \* loop index of scheduled_workflow
    results,       \* one record per finished scheduled iteration
    sleeps,        \* number of inter-post sleeps executed
    steps,         \* steps of the current single-post run, in order
    image_exists,  \* does the current run's image file exist on disk
    payload,       \* "inputs" of the image request of this run
    image_desc,    \* generate_description's local image_desc
    caption_calls, \* what the two caption-backend calls of this run did
    description,   \* return value of generate_description
    full_caption,  \* caption sent in the container-creation request
    hashtagged,    \* return value of a direct add_hashtags call
    post_calls,    \* what the current post call has done so far
    container_id,  \* post's local container_id
    next_id,       \* next identifier the publishing backend issues
    published,     \* publish requests so far, as <<run, creation_id>>
    run,           \* number of single_post_workflow calls so far
    errors         \* logger.error records of the current run, by module

vars == <<mode, total_posts, prompt, style, hashtags, pc, i, results, sleeps,
          steps, image_exists, payload, image_desc, caption_calls,
          description, full_caption, hashtagged, post_calls, container_id,
          next_id, published, run, errors>>

(***************************************************************************)
(* Bounds of the model.                                                    *)
(***************************************************************************)
MaxPosts == 3
MaxPromptLen == 3
MaxStyleLen == 2
MaxTagLen == 3
MaxTags == 2
MaxRespLen == 2

(***************************************************************************)
(* Text helpers: Python's str.lower, `in`, str.strip and str.join.         *)
(***************************************************************************)
RECURSIVE StringsUpTo(_, _)
StringsUpTo(alphabet, n) ==
    IF n = 0 THEN {<<>>}
    ELSE LET shorter == StringsUpTo(alphabet, n - 1)
         IN  shorter \cup {Append(s, c) : s \in shorter, c \in alphabet}

Lower(c) ==
    CASE c = "A" -> "a"
      [] c = "B" -> "b"
      [] OTHER -> c

LowerStr(s) == [k \in 1..Len(s) |-> Lower(s[k])]

\* sub in s
Contains(sub, s) ==
    \E k \in 0..Len(s) :
        /\ k + Len(sub) <= Len(s)
        /\ SubSeq(s, k + 1, k + Len(sub)) = sub

RECURSIVE LStrip(_, _)
LStrip(s, chars) ==
    IF s # <<>> /\ Head(s) \in chars THEN LStrip(Tail(s), chars) ELSE s

RECURSIVE RStrip(_, _)
RStrip(s, chars) ==
    IF s # <<>> /\ s[Len(s)] \in chars
    THEN RStrip(SubSeq(s, 1, Len(s) - 1), chars)
    ELSE s

\* s.strip(chars): both ends
Strip(s, chars) == RStrip(LStrip(s, chars), chars)

Whitespace == {" ", "\n"}

RECURSIVE Join(_, _)
Join(sep, list) ==
    IF list = <<>> THEN <<>>
    ELSE IF Len(list) = 1 THEN list[1]
    ELSE list[1] \o sep \o Join(sep, Tail(list))

(***************************************************************************)
(* ImageGenerator.generate_image: the prompt sent to the backend.          *)
(***************************************************************************)
FullPromptNoLower(p, st) ==
    IF ~Contains(st, LowerStr(p)) THEN p \o <<",", " ">> \o st ELSE p

FullPrompt(p, st) ==
    IF ~Contains(LowerStr(st), LowerStr(p))
    THEN p \o <<",", " ">> \o st
    ELSE p

(***************************************************************************)
(* DescriptionGenerator.add_hashtags and the merge inside                  *)
(* InstagramPoster.post.                                                   *)
(***************************************************************************)
FormatTag(tag) == <<"#">> \o Strip(tag, {"#"})

FormattedHashtags(tags) == [k \in 1..Len(tags) |-> FormatTag(tags[k])]

add_hashtags(desc, tags) ==
    desc \o <<"\n", "\n">> \o Join(<<" ">>, FormattedHashtags(tags))

\* the merge with "#" put in front of each tag as it is given
PostFullCaptionNoStrip(caption, tags) ==
    IF tags # <<>>
    THEN caption \o <<"\n", "\n">> \o
             Join(<<" ">>, [k \in 1..Len(tags) |-> <<"#">> \o tags[k]])
    ELSE caption

\* post's own merge: " ".join([f"#{tag.strip('#')}" for tag in hashtags])
PostFullCaption(caption, tags) ==
    IF tags # <<>>
    THEN caption \o <<"\n", "\n">> \o
             Join(<<" ">>,
                  [k \in 1..Len(tags) |-> <<"#">> \o Strip(tags[k], {"#"})])
    ELSE caption

(***************************************************************************)
(* Fixed texts of DescriptionGenerator.                                    *)
(***************************************************************************)
Openers ==
    << "* Check this out!",
       "* Just created something amazing!",
       "* Excited to share this with you all!",
       "* New day, new creation!",
       "* Art in motion...",
       "* Take a look at my latest work!" >>

Closers ==
    << "What do you think?",
       "Let me know your thoughts in the comments!",
       "Double tap if you love it!",
       "Share if this resonates with you!",
       "Tag someone who needs to see this!",
       "Save for inspiration later!" >>

\* generate_description's initial image_desc
ImageDescriptionDefault == <<"an amazing image">>

ImageDescriptionFallbackLower == <<"an amazing image">>

\* _get_image_description's return value in its except clause
ImageDescriptionFallback == <<"An amazing image">>

\* f"{random.choice(self.openers)} {prompt} {random.choice(self.closers)}"
FallbackDescription(o, p, c) == <<Openers[o], " ">> \o p \o <<" ", Closers[c]>>

\* text of message.content[0] in a well-formed backend response
ResponseTexts == StringsUpTo({" ", "x"}, MaxRespLen)

(***************************************************************************)
(* Configurations the workflow is run under.                               *)
(***************************************************************************)
PromptAlphabet == {"a", "A", "b"}

WorkflowPrompts == { <<"b">>, <<"A", "b">> }

WorkflowStyle == <<"a">>

WorkflowHashtags == << <<"#", "a">>, <<"b">> >>

(***************************************************************************)
(* Bookkeeping of one single-post run.                                     *)
(***************************************************************************)
LoggingFunctions ==
    { "generate_image", "generate_description", "post",
      "_create_media_container", "_publish_container",
      "single_post_workflow", "scheduled_workflow", "main" }

NoErrors == [f \in LoggingFunctions |-> 0]

\* n calls of logger.error inside function f
LogError(f, n) == [errors EXCEPT ![f] = @ + n]

NoCaptionCalls == [vision |-> "none", vision_requests |-> 0,
                   text |-> "none", text_requests |-> 0]

NoPostCalls == [create |-> 0, created |-> 0, delay |-> 0, publish |-> 0,
                raised |-> "none"]

\* entry of single_post_workflow: fresh locals, fresh per-run records
StartRun ==
    /\ run' = run + 1
    /\ steps' = <<>>
    /\ image_exists' = FALSE
    /\ payload' = <<>>
    /\ image_desc' = <<>>
    /\ caption_calls' = NoCaptionCalls
    /\ description' = <<>>
    /\ full_caption' = <<>>
    /\ post_calls' = NoPostCalls
    /\ container_id' = 0
    /\ errors' = NoErrors

config == <<mode, total_posts, prompt, style, hashtags>>
schedule == <<i, results, sleeps>>
backend == <<next_id, published>>

(***************************************************************************)
(* main: dispatch on the mode.                                             *)
(***************************************************************************)
MainSingle ==
    /\ pc = "main"
    /\ mode = "single"
    /\ StartRun
    /\ pc' = "GenerateImage"
    /\ UNCHANGED <<config, schedule, backend, hashtagged>>

MainScheduled ==
    /\ pc = "main"
    /\ mode = "scheduled"
    /\ pc' = "sched_loop"
    /\ UNCHANGED <<config, schedule, backend, hashtagged, run, steps,
                   image_exists, payload, image_desc, caption_calls,
                   description, full_caption, post_calls, container_id,
                   errors>>

(***************************************************************************)
(* single_post_workflow, step 1: ImageGenerator.generate_image.            *)
(* outcome: "ok", or how the request or the file write failed.             *)
(***************************************************************************)
ImageOutcomes == {"ok", "http_error", "connection_error", "write_error"}

\* logger.error calls of generate_image's except clauses
ImageErrorRecords(outcome) ==
    CASE outcome = "http_error" -> 3
      [] outcome = "connection_error" -> 1
      [] outcome = "write_error" -> 1
      [] OTHER -> 0

\* the call at single_post_workflow's first step; an exception of
\* generate_image leaves the try block for on_error
GenerateImageThen(outcome, on_error) ==
    /\ pc = "GenerateImage"
    /\ steps' = Append(steps, "GenerateImage")
    /\ payload' = FullPrompt(prompt, style)
    /\ IF outcome = "ok"
       THEN /\ image_exists' = TRUE
            /\ pc' = "GenerateCaption"
            /\ errors' = errors
       ELSE /\ image_exists' = FALSE
            /\ pc' = on_error
            /\ errors' = LogError("generate_image", ImageErrorRecords(outcome))
    /\ UNCHANGED <<config, schedule, backend, hashtagged, run, image_desc,
                   caption_calls, description, full_caption, post_calls,
                   container_id>>

GenerateImageSwallowed(outcome) == GenerateImageThen(outcome, "GenerateCaption")

GenerateImage(outcome) == GenerateImageThen(outcome, "single_except")

(***************************************************************************)
(* single_post_workflow, step 2: DescriptionGenerator.generate_description *)
(***************************************************************************)
\* if image_path and os.path.exists(image_path)
CaptionCheckImage ==
    /\ pc = "GenerateCaption"
    /\ steps' = Append(steps, "GenerateCaption")
    /\ IF image_exists
       THEN /\ pc' = "describe_image"
            /\ image_desc' = ImageDescriptionDefault
       ELSE /\ pc' = "request_caption"
            /\ image_desc' = ImageDescriptionDefault
    /\ UNCHANGED <<config, schedule, backend, hashtagged, run, image_exists,
                   payload, caption_calls, description, full_caption,
                   post_calls, container_id, errors>>

VisionOutcomes == {"ok", "request_error", "empty_content", "no_text"}

\* _get_image_description: open the file, one vision request, content[0].text;
\* open fails before the request when the file is gone, and every exception
\* ends in the except clause
GetImageDescription(outcome, text) ==
    /\ pc = "describe_image"
    /\ IF ~image_exists
       THEN /\ image_desc' = ImageDescriptionFallback
            /\ caption_calls' = [caption_calls EXCEPT !.vision = "file_missing"]
       ELSE IF outcome = "ok"
       THEN /\ image_desc' = text
            /\ caption_calls' = [caption_calls EXCEPT !.vision = "ok",
                                     !.vision_requests = @ + 1]
       ELSE /\ image_desc' = ImageDescriptionFallback
            /\ caption_calls' = [caption_calls EXCEPT !.vision = "failed",
                                     !.vision_requests = @ + 1]
    /\ pc' = "request_caption"
    /\ UNCHANGED <<config, schedule, backend, hashtagged, run, steps,
                   image_exists, payload, description, full_caption,
                   post_calls, container_id, errors>>

TextOutcomes == {"ok", "format_error", "request_error", "empty_content",
                 "no_text"}

\* the rest of generate_description: template, text request, strip; the
\* except clause builds the fallback from fresh random choices o and c
RequestCaption(outcome, text, o, c) ==
    /\ pc = "request_caption"
    /\ IF outcome = "ok"
       THEN /\ description' = Strip(text, Whitespace)
            /\ errors' = errors
       ELSE /\ description' = FallbackDescription(o, prompt, c)
            /\ errors' = LogError("generate_description", 1)
    /\ caption_calls' = [caption_calls EXCEPT
                             !.text = IF outcome = "ok" THEN "ok" ELSE "failed",
                             !.text_requests =
                                 IF outcome = "format_error" THEN @ ELSE @ + 1]
    /\ image_desc' = <<>>
    /\ pc' = "Publish"
    /\ UNCHANGED <<config, schedule, backend, hashtagged, run, steps,
                   image_exists, payload, full_caption, post_calls,
                   container_id>>

(***************************************************************************)
(* single_post_workflow, step 3: InstagramPoster.post.                     *)
(***************************************************************************)
\* the existence check and the hashtag merge, before the try block
PostCheckWith(path_exists) ==
    /\ pc = "Publish"
    /\ steps' = Append(steps, "Publish")
    /\ IF ~path_exists
       THEN /\ post_calls' = [post_calls EXCEPT !.raised = "FileNotFoundError"]
            /\ errors' = LogError("post", 1)
            /\ full_caption' = full_caption
            /\ pc' = "single_except"
       ELSE /\ full_caption' = PostFullCaption(description, hashtags)
            /\ post_calls' = post_calls
            /\ errors' = errors
            /\ pc' = "create_container"
    /\ UNCHANGED <<config, schedule, backend, hashtagged, run, image_exists,
                   payload, image_desc, caption_calls, description,
                   container_id>>

PostCheckSkipped == PostCheckWith(TRUE)

\* if not os.path.exists(image_path)
PostCheck == PostCheckWith(image_exists)

CreateOutcomes == {"ok", "status_error", "no_id", "request_error"}

\* _create_media_container: one POST to /media, carrying full_caption; the
\* backend answers 200 with a fresh identifier, 200 without one, another
\* status, or not at all. description is not read after this call.
CreateMediaContainer(outcome) ==
    /\ pc = "create_container"
    /\ IF outcome = "ok"
       THEN /\ container_id' = next_id
            /\ next_id' = next_id + 1
            /\ post_calls' = [post_calls EXCEPT !.create = @ + 1,
                                                !.created = @ + 1]
            /\ errors' = errors
            /\ pc' = "publish_delay"
       ELSE /\ container_id' = container_id
            /\ next_id' = next_id
            /\ post_calls' = [post_calls EXCEPT !.create = @ + 1]
            /\ errors' = IF outcome \in {"status_error", "no_id"}
                         THEN LogError("_create_media_container", 1)
                         ELSE errors
            /\ pc' = "post_except"
    /\ description' = <<>>
    /\ UNCHANGED <<config, schedule, published, hashtagged, run, steps,
                   image_exists, payload, image_desc, caption_calls,
                   full_caption>>

\* the publish request follows the container request with no delay
PublishDelaySkipped ==
    /\ pc = "publish_delay"
    /\ full_caption' = <<>>
    /\ pc' = "publish_request"
    /\ UNCHANGED <<config, schedule, backend, hashtagged, run, steps,
                   image_exists, payload, image_desc, caption_calls,
                   description, post_calls, container_id, errors>>

\* _publish_container: time.sleep(5). full_caption is not read after the
\* container request.
PublishDelay ==
    /\ pc = "publish_delay"
    /\ post_calls' = [post_calls EXCEPT !.delay = @ + 1]
    /\ full_caption' = <<>>
    /\ pc' = "publish_request"
    /\ UNCHANGED <<config, schedule, backend, hashtagged, run, steps,
                   image_exists, payload, image_desc, caption_calls,
                   description, container_id, errors>>

\* the identifier of the latest publish request, if there is one
CreationIdStale ==
    IF published # <<>> THEN published[Len(published)][2] ELSE container_id

\* params["creation_id"] of the publish request
CreationId == container_id

PublishOutcomes == {"ok", "status_error", "request_error"}

\* _publish_container: one POST to /media_publish; on success post and
\* single_post_workflow return the result
PublishContainer(outcome) ==
    /\ pc = "publish_request"
    /\ post_calls' = [post_calls EXCEPT !.publish = @ + 1]
    /\ published' = Append(published, <<run, CreationId>>)
    /\ IF outcome = "ok"
       THEN /\ pc' = "Done"
            /\ errors' = errors
       ELSE /\ pc' = "post_except"
            /\ errors' = IF outcome = "status_error"
                         THEN LogError("_publish_container", 1)
                         ELSE errors
    /\ UNCHANGED <<config, schedule, next_id, hashtagged, run, steps,
                   image_exists, payload, image_desc, caption_calls,
                   description, full_caption, container_id>>

\* post's except clause: log and re-raise
PostExcept ==
    /\ pc = "post_except"
    /\ errors' = LogError("post", 1)
    /\ post_calls' = [post_calls EXCEPT !.raised = "Exception"]
    /\ full_caption' = <<>>
    /\ pc' = "single_except"
    /\ UNCHANGED <<config, schedule, backend, hashtagged, run, steps,
                   image_exists, payload, image_desc, caption_calls,
                   description, container_id>>

\* single_post_workflow's except clause: log and re-raise
SinglePostExcept ==
    /\ pc = "single_except"
    /\ errors' = LogError("single_post_workflow", 1)
    /\ pc' = "raised"
    /\ UNCHANGED <<config, schedule, backend, hashtagged, run, steps,
                   image_exists, payload, image_desc, caption_calls,
                   description, full_caption, post_calls, container_id>>

\* the file system is not the program's alone: the image file can go away
\* between its creation and the checks that look for it
RemoveImageFile ==
    /\ pc \in {"GenerateCaption", "describe_image", "request_caption",
               "Publish"}
    /\ image_exists
    /\ image_exists' = FALSE
    /\ UNCHANGED <<config, schedule, backend, hashtagged, run, steps, pc,
                   payload, image_desc, caption_calls, description,
                   full_caption, post_calls, container_id, errors>>

(***************************************************************************)
(* main in single mode: the call returns, or main logs and re-raises.      *)
(***************************************************************************)
run_locals == <<run, steps, image_exists, payload, image_desc, caption_calls,
                description, full_caption, post_calls, container_id>>

MainReturn ==
    /\ pc = "Done"
    /\ mode = "single"
    /\ pc' = "returned"
    /\ UNCHANGED <<config, schedule, backend, hashtagged, run_locals, errors>>

MainExcept ==
    /\ pc = "raised"
    /\ mode = "single"
    /\ errors' = LogError("main", 1)
    /\ pc' = "crashed"
    /\ UNCHANGED <<config, schedule, backend, hashtagged, run_locals>>

(***************************************************************************)
(* scheduled_workflow: for i in range(total_posts), try / except / continue *)
(***************************************************************************)
\* the loop head with an iteration left: call single_post_workflow
ScheduledIterate ==
    /\ pc = "sched_loop"
    /\ i < total_posts
    /\ StartRun
    /\ pc' = "GenerateImage"
    /\ UNCHANGED <<config, schedule, backend, hashtagged>>

\* the loop head with no iteration left: the function returns
ScheduledReturn ==
    /\ pc = "sched_loop"
    /\ i >= total_posts
    /\ pc' = "returned"
    /\ UNCHANGED <<config, schedule, backend, hashtagged, run_locals, errors>>

\* single_post_workflow returned: sleep comes next, also after the last post
ScheduledAfterPostAlwaysSleeps ==
    /\ pc = "Done"
    /\ mode = "scheduled"
    /\ pc' = "sleep"
    /\ UNCHANGED schedule
    /\ UNCHANGED <<config, backend, hashtagged, run_locals, errors>>

\* single_post_workflow returned: if i < total_posts - 1, sleep comes next
ScheduledAfterPost ==
    /\ pc = "Done"
    /\ mode = "scheduled"
    /\ IF i < total_posts - 1
       THEN /\ pc' = "sleep"
            /\ UNCHANGED schedule
       ELSE /\ pc' = "sched_loop"
            /\ results' = Append(results, [ok |-> TRUE, slept |-> FALSE,
                                           logged |-> 0])
            /\ i' = i + 1
            /\ sleeps' = sleeps
    /\ UNCHANGED <<config, backend, hashtagged, run_locals, errors>>

\* time.sleep(post_frequency * 3600), then the next iteration
ScheduledSleep ==
    /\ pc = "sleep"
    /\ sleeps' = sleeps + 1
    /\ results' = Append(results, [ok |-> TRUE, slept |-> TRUE, logged |-> 0])
    /\ i' = i + 1
    /\ pc' = "sched_loop"
    /\ UNCHANGED <<config, backend, hashtagged, run_locals, errors>>

\* the except clause of the loop body: `records` calls of logger.error,
\* then control goes to `target`
ScheduledHandler(records, target) ==
    /\ pc = "raised"
    /\ mode = "scheduled"
    /\ errors' = LogError("scheduled_workflow", records)
    /\ results' = Append(results, [ok |-> FALSE, slept |-> FALSE,
                                   logged |-> records])
    /\ i' = i + 1
    /\ sleeps' = sleeps
    /\ pc' = target
    /\ UNCHANGED <<config, backend, hashtagged, run_locals>>

ScheduledExceptRaise == ScheduledHandler(1, "crashed")

ScheduledExceptSilent == ScheduledHandler(0, "sched_loop")

\* except Exception: log, continue
ScheduledExcept == ScheduledHandler(1, "sched_loop")

(***************************************************************************)
(* The program run from main, in either mode.                              *)
(***************************************************************************)
InitRun ==
    /\ i = 0
    /\ results = <<>>
    /\ sleeps = 0
    /\ steps = <<>>
    /\ image_exists = FALSE
    /\ payload = <<>>
    /\ image_desc = <<>>
    /\ caption_calls = NoCaptionCalls
    /\ description = <<>>
    /\ full_caption = <<>>
    /\ hashtagged = <<>>
    /\ post_calls = NoPostCalls
    /\ container_id = 0
    /\ next_id = 1
    /\ published = <<>>
    /\ errors = NoErrors

Init ==
    /\ mode \in {"single", "scheduled"}
    /\ total_posts \in 1..MaxPosts
    /\ prompt \in WorkflowPrompts
    /\ style = WorkflowStyle
    /\ hashtags = WorkflowHashtags
    /\ pc = "main"
    /\ run = 0
    /\ InitRun

\* the steps of the program itself
ProgramNext ==
    \/ MainSingle
    \/ MainScheduled
    \/ \E outcome \in ImageOutcomes : GenerateImage(outcome)
    \/ CaptionCheckImage
    \/ \E text \in ResponseTexts : GetImageDescription("ok", text)
    \/ \E outcome \in VisionOutcomes \ {"ok"} :
           GetImageDescription(outcome, <<>>)
    \/ \E text \in ResponseTexts : RequestCaption("ok", text, 1, 1)
    \/ \E outcome \in TextOutcomes \ {"ok"},
          o \in 1..Len(Openers), c \in 1..Len(Closers) :
           RequestCaption(outcome, <<>>, o, c)
    \/ PostCheck
    \/ \E outcome \in CreateOutcomes : CreateMediaContainer(outcome)
    \/ PublishDelay
    \/ \E outcome \in PublishOutcomes : PublishContainer(outcome)
    \/ PostExcept
    \/ SinglePostExcept
    \/ MainReturn
    \/ MainExcept
    \/ ScheduledIterate
    \/ ScheduledReturn
    \/ ScheduledAfterPost
    \/ ScheduledSleep
    \/ ScheduledExcept

Next == ProgramNext \/ RemoveImageFile

Spec == Init /\ [][Next]_vars

(***************************************************************************)
(* generate_image called on its own, for every prompt and style.           *)
(***************************************************************************)
InitImagePrompt ==
    /\ mode = "single"
    /\ total_posts = 1
    /\ prompt \in StringsUpTo(PromptAlphabet, MaxPromptLen)
    /\ style \in StringsUpTo(PromptAlphabet, MaxStyleLen)
    /\ hashtags = <<>>
    /\ pc = "GenerateImage"
    /\ run = 1
    /\ InitRun

NextImagePrompt == \E outcome \in ImageOutcomes : GenerateImage(outcome)

SpecImagePrompt == InitImagePrompt /\ [][NextImagePrompt]_vars

(***************************************************************************)
(* add_hashtags called on its own, for every caption and tag list.         *)
(***************************************************************************)
Tags == StringsUpTo({"#", "a"}, MaxTagLen)

RECURSIVE ListsUpTo(_, _)
ListsUpTo(elems, n) ==
    IF n = 0 THEN {<<>>}
    ELSE LET shorter == ListsUpTo(elems, n - 1)
         IN  shorter \cup {Append(l, e) : l \in shorter, e \in elems}

Captions == {<<>>, <<"x">>}

AddHashtags ==
    /\ pc = "add_hashtags"
    /\ hashtagged' = add_hashtags(description, hashtags)
    /\ pc' = "add_hashtags_returned"
    /\ UNCHANGED <<config, schedule, backend, run_locals, errors>>

InitHashtags ==
    /\ mode = "single"
    /\ total_posts = 1
    /\ prompt = <<>>
    /\ style = <<>>
    /\ hashtags \in ListsUpTo(Tags, MaxTags)
    /\ pc = "add_hashtags"
    /\ run = 0
    /\ i = 0
    /\ results = <<>>
    /\ sleeps = 0
    /\ steps = <<>>
    /\ image_exists = FALSE
    /\ payload = <<>>
    /\ image_desc = <<>>
    /\ caption_calls = NoCaptionCalls
    /\ description \in Captions
    /\ full_caption = <<>>
    /\ hashtagged = <<>>
    /\ post_calls = NoPostCalls
    /\ container_id = 0
    /\ next_id = 1
    /\ published = <<>>
    /\ errors = NoErrors

NextHashtags == AddHashtags

SpecHashtags == InitHashtags /\ [][NextHashtags]_vars

(***************************************************************************)
(* post called on its own with an existing image, for every caption and    *)
(* tag list, up to the answer to its container request.                    *)
(***************************************************************************)
InitPostCaption ==
    /\ mode = "single"
    /\ total_posts = 1
    /\ prompt = <<>>
    /\ style = <<>>
    /\ hashtags \in ListsUpTo(Tags, MaxTags)
    /\ pc = "Publish"
    /\ run = 1
    /\ i = 0
    /\ results = <<>>
    /\ sleeps = 0
    /\ steps = <<"GenerateImage", "GenerateCaption">>
    /\ image_exists = TRUE
    /\ payload = <<>>
    /\ image_desc = <<>>
    /\ caption_calls = NoCaptionCalls
    /\ description \in Captions
    /\ full_caption = <<>>
    /\ hashtagged = <<>>
    /\ post_calls = NoPostCalls
    /\ container_id = 0
    /\ next_id = 1
    /\ published = <<>>
    /\ errors = NoErrors

NextPostCaption ==
    \/ PostCheck
    \/ \E outcome \in CreateOutcomes : CreateMediaContainer(outcome)

SpecPostCaption == InitPostCaption /\ [][NextPostCaption]_vars

TypeOK ==
    /\ pc \in {"main", "sched_loop", "GenerateImage", "GenerateCaption",
               "describe_image", "request_caption", "Publish",
               "create_container", "publish_delay", "publish_request",
               "post_except", "single_except", "Done", "raised", "sleep",
               "returned", "crashed", "add_hashtags", "add_hashtags_returned"}
    /\ i \in 0..total_posts
    /\ run \in 0..MaxPosts + 1

(***************************************************************************)
(* Properties.                                                             *)
(***************************************************************************)
RunSteps == <<"GenerateImage", "GenerateCaption", "Publish">>

IsPrefix(s, t) == Len(s) <= Len(t) /\ SubSeq(t, 1, Len(s)) = s

Failed == {k \in 1..Len(results) : ~results[k].ok}

\* C1: in a scheduled run of N posts single_post_workflow is attempted
\* exactly N times whatever fails: while the loop runs there is one attempt
\* per iteration and some step is always possible, no failure makes the
\* function raise, and when it returns all N attempts have taken place.
C1_AllAttemptsMade ==
    mode = "scheduled" =>
        /\ pc # "crashed"
        /\ run <= total_posts
        /\ Len(results) = i
        /\ run \in {i, i + 1}
        /\ (pc = "returned" => run = total_posts /\ i = total_posts)
        /\ (pc # "returned" => ENABLED ProgramNext)

C1_Witness ==
    /\ mode = "scheduled"
    /\ pc = "returned"
    /\ total_posts = 3
    /\ run = 3
    /\ Failed = {2}

C3_MissingFileNoRequest ==
    /\ [][(pc = "Publish" /\ ~image_exists /\ pc' # pc) =>
            /\ post_calls'.raised = "FileNotFoundError"
            /\ pc' = "single_except"
            /\ backend' = backend]_vars
    /\ [](post_calls.raised = "FileNotFoundError" =>
            /\ post_calls.create = 0
            /\ post_calls.publish = 0
            /\ post_calls.delay = 0
            /\ \A k \in 1..Len(published) : published[k][1] # run)

C3_Witness ==
    /\ post_calls.raised = "FileNotFoundError"
    /\ pc = "raised"
    /\ steps = RunSteps

PublishedIdsDistinct ==
    \A a, b \in 1..Len(published) :
        a # b => /\ published[a][1] # published[b][1]
                 /\ published[a][2] # published[b][2]

\* C4 as stated: every finished post run has created exactly one container,
\* sent at most one publish request, and no identifier is published twice.
C4_ExactlyOneContainerPerRun ==
    /\ pc \in {"Done", "raised"} =>
           post_calls.created = 1 /\ post_calls.publish <= 1
    /\ PublishedIdsDistinct

\* C4 amended: a post run creates at most one container (exactly one when
\* it ends in Done, none when it fails before the container request is
\* answered with an identifier), sends at most one publish request, and
\* that only for the container it created; no identifier is referenced by
\* the publish requests of two runs.
C4_AtMostOneContainerPerRun ==
    /\ post_calls.create <= 1
    /\ post_calls.created <= post_calls.create
    /\ post_calls.publish <= post_calls.created
    /\ (pc = "Done" => post_calls.created = 1 /\ post_calls.publish = 1)
    /\ (steps # RunSteps => post_calls.create = 0)
    /\ (post_calls.created = 0 <=> container_id = 0)
    /\ \A k \in 1..Len(published) :
           published[k][1] = run => published[k][2] = container_id
    /\ PublishedIdsDistinct

C4_Witness ==
    /\ Len(published) >= 2
    /\ pc = "Done"
    /\ post_calls.created = 1

\* the caption is the fallback built from the prompt
IsFallbackDescription ==
    \E o \in 1..Len(Openers), c \in 1..Len(Closers) :
        description = <<Openers[o], " ">> \o prompt \o <<" ", Closers[c]>>

\* a call inside generate_description failed
SomeCaptionFailure ==
    \/ caption_calls.vision \in {"file_missing", "failed"}
    \/ caption_calls.text = "failed"

\* C5: generate_description never raises and returns a non-empty string
\* whatever fails in it; when every caption-backend call fails the string
\* is an opener, the prompt and a closer.
C5_DescriptionNeverEmpty ==
    /\ pc \in {"single_except", "raised"} => steps # SubSeq(RunSteps, 1, 2)
    /\ (pc = "Publish" /\ SomeCaptionFailure) => description # <<>>
    /\ (pc = "Publish" /\ caption_calls.text = "failed"
            /\ caption_calls.vision # "ok") => IsFallbackDescription

\* the part of C5 that the code keeps: no exception leaves
\* generate_description, and every failure inside it yields the fallback
DescriptionFallbackOnFailure ==
    /\ pc \in {"single_except", "raised"} => steps # SubSeq(RunSteps, 1, 2)
    /\ (pc = "Publish" /\ caption_calls.text = "failed") =>
           IsFallbackDescription /\ description # <<>>

AbortedPcs == {"single_except", "raised", "crashed", "sched_loop", "returned"}

\* C6: a single-post run takes GenerateImage, GenerateCaption, Publish in
\* that order, each at most once; a step that raises is the last step of
\* its run and the exception reaches the caller of single_post_workflow.
C6_StepsInOrder ==
    /\ [](/\ IsPrefix(steps, RunSteps)
          /\ (pc = "Done" => steps = RunSteps)
          /\ (pc = "GenerateCaption" => steps = SubSeq(RunSteps, 1, 1))
          /\ (pc = "Publish" => steps = SubSeq(RunSteps, 1, 2))
          /\ (errors["generate_image"] > 0 =>
                  steps = SubSeq(RunSteps, 1, 1) /\ pc \in AbortedPcs)
          /\ (post_calls.raised # "none" =>
                  steps = RunSteps /\ pc \in AbortedPcs))
    /\ [][pc = "single_except" => pc' = "raised"]_vars
    /\ [][pc = "raised" => pc' \in {"crashed", "sched_loop"}]_vars
    /\ [][(pc \in AbortedPcs /\ run' = run) => steps' = steps]_vars

C6_Witness ==
    /\ pc = "raised"
    /\ errors["generate_image"] > 0
    /\ steps = SubSeq(RunSteps, 1, 1)

TotalErrors ==
    errors["generate_image"] + errors["generate_description"]
        + errors["post"] + errors["_create_media_container"]
        + errors["_publish_container"] + errors["single_post_workflow"]
        + errors["scheduled_workflow"] + errors["main"]

RECURSIVE LoggedByLoop(_)
LoggedByLoop(k) == IF k = 0 THEN 0 ELSE results[k].logged + LoggedByLoop(k - 1)

AttemptOver == mode = "scheduled" /\ pc = "sched_loop" /\ i > 0

\* C7 as stated: a failed attempt of a scheduled run leaves exactly one
\* error record, a successful one none.
C7_OneErrorPerFailedAttempt ==
    AttemptOver => TotalErrors = (IF results[i].ok THEN 0 ELSE 1)

\* C7 amended: scheduled_workflow itself records exactly one error for each
\* failed attempt and none for a successful one, so over the run its records
\* are as many as the failed attempts; the failed attempt has at least two
\* more error records, one of single_post_workflow and at least one of the
\* component that failed, and a successful attempt has one error record
\* when generate_description fell back.
C7_OneLoopRecordPerFailedAttempt ==
    /\ mode = "scheduled" => LoggedByLoop(Len(results)) = Cardinality(Failed)
    /\ AttemptOver =>
           IF results[i].ok
           THEN /\ errors["scheduled_workflow"] = 0
                /\ TotalErrors = errors["generate_description"]
                /\ TotalErrors <= 1
           ELSE /\ errors["scheduled_workflow"] = 1
                /\ errors["single_post_workflow"] = 1
                /\ TotalErrors >= 3

C7_Witness ==
    /\ AttemptOver
    /\ total_posts = 3
    /\ i = 3
    /\ Failed = {2}
    /\ LoggedByLoop(3) = 1

\* C8: _get_image_description never raises; when the file is missing, the
\* request fails or the response is malformed it returns "An amazing image",
\* and for a missing file it sends no request.
C8_ImageDescriptionFallback ==
    /\ [][(pc = "describe_image" /\ pc' # pc) => pc' = "request_caption"]_vars
    /\ [](pc = "request_caption" =>
            /\ (caption_calls.vision \in {"file_missing", "failed"} =>
                    image_desc = <<"An amazing image">>)
            /\ (caption_calls.vision = "file_missing" =>
                    caption_calls.vision_requests = 0)
            /\ (caption_calls.vision = "failed" =>
                    caption_calls.vision_requests = 1))

C8_Witness ==
    /\ pc = "request_caption"
    /\ caption_calls.vision = "file_missing"
    /\ image_desc = <<"An amazing image">>
    /\ caption_calls.vision_requests = 0

ImageRequestSent == steps # <<>>

\* C9 as stated: the request carries P, ", " and S when lowercase P does not
\* contain S, and P alone when P contains S case-insensitively.
C9_StyleAppendedUnlessInLowerPrompt ==
    ImageRequestSent =>
        /\ ~Contains(style, LowerStr(prompt)) =>
               payload = prompt \o <<",", " ">> \o style
        /\ Contains(LowerStr(style), LowerStr(prompt)) => payload = prompt

\* C9 amended: the request carries P, ", " and S when lowercase P does not
\* contain lowercase S, and P alone when it does.
C9_StyleAppendedUnlessContained ==
    ImageRequestSent =>
        /\ ~Contains(LowerStr(style), LowerStr(prompt)) =>
               payload = prompt \o <<",", " ">> \o style
        /\ Contains(LowerStr(style), LowerStr(prompt)) => payload = prompt

C9_Witness ==
    /\ ImageRequestSent
    /\ style = <<"A">>
    /\ prompt = <<"b", "a">>
    /\ payload = prompt

\* "#" and the tag without its leading "#" characters
LeadingHashNormalized(tag) == <<"#">> \o LStrip(tag, {"#"})

\* C10: add_hashtags returns the caption, a blank line and the tags joined
\* by single spaces, each tag with its leading "#" characters replaced by
\* one "#" and otherwise unchanged; normalizing a normalized tag changes
\* nothing.
C10_LeadingHashOnly ==
    pc = "add_hashtags_returned" =>
        /\ hashtagged = description \o <<"\n", "\n">> \o
               Join(<<" ">>, [k \in 1..Len(hashtags) |->
                                  LeadingHashNormalized(hashtags[k])])
        /\ \A k \in 1..Len(hashtags) :
               FormatTag(FormatTag(hashtags[k])) = FormatTag(hashtags[k])

\* what the code keeps of C10: the shape of the result, one "#" in front of
\* every tag, and idempotence
HashtagsNormalizedBothEnds ==
    pc = "add_hashtags_returned" =>
        /\ hashtagged = description \o <<"\n", "\n">> \o
               Join(<<" ">>, [k \in 1..Len(hashtags) |->
                                  <<"#">> \o Strip(hashtags[k], {"#"})])
        /\ \A k \in 1..Len(hashtags) :
               FormatTag(FormatTag(hashtags[k])) = FormatTag(hashtags[k])

PostFailedPcs ==
    {"post_except", "single_except", "raised", "crashed", "sched_loop",
     "returned"}

\* C11: one post call sends the container request at most once and the
\* publish request at most once; the publish request comes only after the
\* container request was answered 200 with an identifier and after the
\* 5-second delay; a container request answered otherwise fails the call
\* and no publish request is sent.
C11_CreateThenDelayThenPublish ==
    /\ [](/\ post_calls.create <= 1
          /\ post_calls.publish <= post_calls.delay
          /\ post_calls.delay <= post_calls.created
          /\ post_calls.created <= post_calls.create
          /\ (post_calls.publish = 1 => container_id # 0)
          /\ ((post_calls.create = 1 /\ post_calls.created = 0) =>
                  /\ post_calls.delay = 0
                  /\ post_calls.publish = 0
                  /\ pc \in PostFailedPcs))
    /\ [][post_calls'.publish = post_calls.publish + 1 =>
            /\ pc = "publish_request"
            /\ post_calls.delay = 1
            /\ post_calls.created = 1
            /\ post_calls.publish = 0]_vars
    /\ [][(pc = "create_container" /\ post_calls'.created = 0) =>
            pc' \in {"create_container", "post_except"}]_vars

C11_Witness ==
    /\ post_calls.publish = 1
    /\ post_calls.delay = 1
    /\ post_calls.created = 1
    /\ post_calls.create = 1
    /\ pc = "Done"

C11_WitnessNoId ==
    /\ post_calls.create = 1
    /\ post_calls.created = 0
    /\ errors["_create_media_container"] = 1
    /\ pc = "raised"

\* post has merged the tags and is about to send the container request
\* with full_caption as its caption
CaptionReadyToSend == pc = "create_container"

\* C12 as stated: for every caption and every tag list, the empty list
\* included, the caption of the container request is what add_hashtags
\* returns for the same caption and list.
C12_CaptionEqualsAddHashtags ==
    CaptionReadyToSend => full_caption = add_hashtags(description, hashtags)

\* C12 amended: for every caption and every non-empty tag list the caption
\* of the container request is what add_hashtags returns for them; for the
\* empty list the request carries the caption alone, while add_hashtags
\* still appends the blank line.
C12_CaptionEqualsAddHashtagsNonEmpty ==
    /\ [](CaptionReadyToSend =>
             IF hashtags # <<>>
             THEN full_caption = add_hashtags(description, hashtags)
             ELSE /\ full_caption = description
                  /\ add_hashtags(description, hashtags) =
                         description \o <<"\n", "\n">>)
    /\ [][(pc = "create_container" /\ post_calls'.create = 1) =>
            full_caption' = full_caption]_vars

C12_Witness ==
    /\ CaptionReadyToSend
    /\ hashtags = << <<"#", "a", "#">>, <<"a">> >>
    /\ full_caption = description \o <<"\n", "\n", "#", "a", " ", "#", "a">>

Slept == {k \in 1..Len(results) : results[k].slept}

\* C13: the inter-post sleep happens only right after an attempt that
\* succeeded and is not the last; a failed attempt is followed by the next
\* attempt with no sleep, so a run of N attempts of which k among the first
\* N - 1 failed has slept N - 1 - k times when it returns.
C13_SleepOnlyAfterSuccess ==
    /\ [](mode = "scheduled" =>
            /\ \A k \in 1..Len(results) :
                   results[k].slept <=> (results[k].ok /\ k < total_posts)
            /\ sleeps = Cardinality(Slept)
            /\ (pc = "returned" =>
                    sleeps + Cardinality(Failed \ {total_posts})
                        = total_posts - 1))
    /\ [][sleeps' # sleeps =>
            /\ pc = "sleep"
            /\ sleeps' = sleeps + 1
            /\ i < total_posts - 1
            /\ results'[i + 1].ok]_vars
    /\ [][pc = "Done" /\ mode = "scheduled" /\ i < total_posts - 1 =>
            pc' = "sleep"]_vars
    /\ [][pc = "raised" /\ mode = "scheduled" =>
            /\ sleeps' = sleeps
            /\ pc' \in {"raised", "sched_loop"}]_vars

C13_Witness ==
    /\ mode = "scheduled"
    /\ pc = "returned"
    /\ total_posts = 3
    /\ Failed = {1}
    /\ sleeps = 1

====
